---- MODULE Spec2Model ----
(***************************************************************************)
(* OWON 16 multimeter suite: the 6-byte frame decoder (owon_decoder.py)    *)
(* and the BLE monitor, version 6.4 (owon_ble_monitor_v6.py): its          *)
(* notification handler, its connection loop and its on-demand reads.      *)
(*                                                                         *)
(* Conventions.                                                            *)
(*  - Python lists of ints are sequences, indexed from 1: raw_data[k] of   *)
(*    the source is raw_data[k+1] here.                                    *)
(*  - A Python str is a sequence of one-character strings, so that         *)
(*    str.replace acts on characters.                                      *)
(*  - A Python float obtained by int / int is the fraction in lowest       *)
(*    terms <<numerator, denominator>>: for the magnitudes (< 2^14) and    *)
(*    the scale factors (1, 10, 100, 1000) of this program two such        *)
(*    floats are equal exactly when the fractions are.                     *)
(*  - Time is counted in ticks of half a second.                           *)
(*  - An Optional value is None (the empty sequence) or Some(x).           *)
(***************************************************************************)
EXTENDS Integers, Sequences, FiniteSets, TLC

VARIABLES
    \* ---- OwonBLEMonitor fields (owon_ble_monitor_v6.py, __init__) ----
    last_data,                \* Optional[Owon_MultimeterData]
    last_raw_data,            \* Optional[List[int]]
    last_announced_raw_data,  \* Optional[List[int]]
    last_change_time,         \* float, seconds (here: ticks)
    last_hold,
    last_relative,
    last_autorange,
    \* ---- environment ----
    now,                      \* the clock read by time.time()
    notif,                    \* Some(payload) of the notification handled last
    spoken,                   \* texts spoken by the operation executed last
    logged,                   \* rows that operation handed to the CSV writer
    caught,                   \* exception that operation swallowed, or NoError
    value_announcements,      \* stable-value announcements since last_raw_data changed
    since_frame,              \* ticks since the last decoded frame arrived, counted up
                              \* to ANNOUNCE_DELAY_SEC
    quick_frame,              \* that frame came less than ANNOUNCE_DELAY_SEC after
                              \* the decoded frame before it
    quick_burst,              \* so did every frame since last_raw_data changed, the
                              \* changing frame apart
    changed_in_search,        \* the value of waiting_said when last_raw_data changed
    \* ---- OwonBLEMonitor fields used by the connection loop ----
    client,                   \* Optional[BleakClient]
    running,
    connected,
    thread,                   \* Optional[Thread]: None, Some("alive"), Some("finished")
    \* ---- the thread that executes run() ----
    pc,                       \* the statement run() is at
    utter,                    \* Some(text) while run() calls announce(text)
    pending,                  \* an exception is leaving the async with block
    \* ---- the transport ----
    session_open,             \* the BleakClient context is entered and not exited
    is_connected,             \* client.is_connected
    subscribed,               \* start_notify has registered handle_notification
    \* ---- the speech engine ----
    speaking,                 \* the threads that are inside announce()
    \* ---- the thread that calls get_measure and get_measure_and_say ----
    mpc,                      \* the statement that call is at
    mlocal,                   \* Some(the call and what it has read), None before
                              \* the first call
    seen,                     \* the values last_data has had during the call
    \* ---- observers of the connection loop ----
    stopped_in,               \* the phase run() was in when stop() cleared running
    passes_after_stop,        \* discovery passes begun since then, counted up to
                              \* CountCap
    waiting_said,             \* times the running thread has said "En attente ..."
                              \* so far, counted up to CountCap
    error_pending,            \* the connection or the subscription raised an
                              \* exception since the last discovery pass began and
                              \* "Multimetre deconnecte." has not been announced since
    \* ---- harness of the pure functions ----
    arg,                      \* the argument of the call
    fields,                   \* Some(bit fields the argument was built from)
    ret                       \* Some(result), None before the call

vars == << last_data, last_raw_data, last_announced_raw_data, last_change_time,
           last_hold, last_relative, last_autorange,
           now, notif, spoken, logged, caught, value_announcements,
           since_frame, quick_frame, quick_burst, changed_in_search,
           client, running, connected, thread, pc, utter, pending,
           session_open, is_connected, subscribed, speaking,
           mpc, mlocal, seen,
           stopped_in, passes_after_stop, waiting_said,
           error_pending,
           arg, fields, ret >>

trackerVars == << last_data, last_raw_data, last_announced_raw_data,
                  last_change_time, last_hold, last_relative, last_autorange >>

observerVars == << value_announcements, since_frame, quick_frame, quick_burst,
                   changed_in_search >>

\* The fields, the position and the transport of the connection loop.
loopVars == << client, running, connected, thread, pc, utter, pending,
               session_open, is_connected, subscribed >>

loopObserverVars == << stopped_in, passes_after_stop, waiting_said, error_pending >>

readerVars == << mpc, mlocal, seen >>

lifeVars == << loopVars, loopObserverVars, speaking, readerVars >>

envVars == << now, notif, spoken, logged, caught, observerVars, lifeVars >>

harnessVars == << arg, fields, ret >>

\* Optional[T]: None is the empty sequence, a value x is Some(x).
None == << >>

Some(x) == << x >>

NoError == "NoError"

\* The outcome of a constructor call that raised ValueError.
ValueError == [raises |-> "ValueError"]

(***************************************************************************)
(* Python integer operators on naturals.                                   *)
(***************************************************************************)
RECURSIVE BitAnd(_, _)
BitAnd(a, b) ==
    IF a = 0 \/ b = 0 THEN 0
    ELSE (IF a % 2 = 1 /\ b % 2 = 1 THEN 1 ELSE 0) + 2 * BitAnd(a \div 2, b \div 2)

RECURSIVE BitOr(_, _)
BitOr(a, b) ==
    IF a = 0 THEN b
    ELSE IF b = 0 THEN a
    ELSE (IF a % 2 = 1 \/ b % 2 = 1 THEN 1 ELSE 0) + 2 * BitOr(a \div 2, b \div 2)

ShiftLeft(a, n) == a * 2^n

ShiftRight(a, n) == a \div 2^n

RECURSIVE GCD(_, _)
GCD(a, b) == IF b = 0 THEN a ELSE GCD(b, a % b)

Abs(n) == IF n < 0 THEN -n ELSE n

\* int / int, Python's true division, for d > 0.
TrueDiv(n, d) ==
    LET g == GCD(Abs(n), d)
    IN  << (IF n < 0 THEN -(Abs(n) \div g) ELSE n \div g), d \div g >>

\* str.replace(old, new) for one-character old and new.
Replace(s, old, new) == [i \in DOMAIN s |-> IF s[i] = old THEN new ELSE s[i]]

(***************************************************************************)
(* owon_decoder.py                                                         *)
(***************************************************************************)
\* The dictionary, in insertion order: << key, value >>.
OWON_FUNCTION ==
    <<
       << <<"M","I","L","L","I","_","V","O","L","T","_","D","C">>, 7683 >>,
       << <<"M","I","L","L","I","_","V","O","L","T","_","A","C">>, 7691 >>,
       << <<"V","O","L","T","_","D","C">>, 7684 >>,
       << <<"V","O","L","T","_","A","C">>, 7692 >>,
       << <<"D","I","O","D","E","_","T","E","S","T">>, 7764 >>,
       << <<"M","I","C","R","O","_","A","M","P","E","R","E","_","D","C">>, 7698 >>,
       << <<"M","I","L","L","I","_","A","M","P","E","R","E","_","A","C">>, 7699 >>,
       << <<"M","I","C","R","O","_","A","M","P","E","R","E","_","A","C">>, 7706 >>,
       << <<"M","I","L","L","I","_","A","M","P","E","R","E","_","D","C">>, 7707 >>,
       << <<"A","M","P","E","R","E","_","D","C">>, 7700 >>,
       << <<"A","M","P","E","R","E","_","A","C">>, 7708 >>,
       << <<"O","H","M","_","N","O","R","M","A","L">>, 7716 >>,
       << <<"C","O","N","T","I","N","U","I","T","Y","_","T","E","S","T">>, 7772 >>,
       << <<"K","I","L","O","_","O","H","M">>, 7717 >>,
       << <<"M","E","G","A","_","O","H","M">>, 7718 >>,
       << <<"N","A","N","O","_","F","A","R","A","D">>, 7721 >>,
       << <<"M","I","C","R","O","_","F","A","R","A","D">>, 7722 >>,
       << <<"M","I","L","L","I","_","F","A","R","A","D">>, 7723 >>,
       << <<"F","A","R","A","D">>, 7724 >>,
       << <<"H","E","R","T","Z">>, 7732 >>,
       << <<"P","E","R","C","E","N","T","A","G","E">>, 7740 >>,
       << <<"C","E","L","S","I","U","S">>, 7748 >>,
       << <<"F","A","H","R","E","N","H","E","I","T">>, 7756 >>,
       << <<"N","E","A","R","_","F","I","E","L","D">>, 7788 >>
    >>

UnknownValue == <<"u","n","k","n","o","w","n"," ","v","a","l","u","e">>

\* Faulty variant: the key is returned as it is.
get_unit_from_value_raw(value) ==
    LET hits == {i \in DOMAIN OWON_FUNCTION : OWON_FUNCTION[i][2] = value}
    IN  IF hits = {} THEN UnknownValue
        ELSE OWON_FUNCTION[CHOOSE i \in hits : \A j \in hits : i <= j][1]

\* for key, val in OWON_FUNCTION.items(): the first key whose value matches.
get_unit_from_value(value) ==
    LET hits == {i \in DOMAIN OWON_FUNCTION : OWON_FUNCTION[i][2] = value}
    IN  IF hits = {} THEN UnknownValue
        ELSE Replace(OWON_FUNCTION[CHOOSE i \in hits : \A j \in hits : i <= j][1], "_", " ")

unit_and_decimal(raw_data) == BitOr(ShiftLeft(raw_data[2], 8), raw_data[1])

flags(raw_data) == raw_data[3]

value_and_sign(raw_data) == BitOr(ShiftLeft(raw_data[6], 8), raw_data[5])

\* Faulty variant: AutoRange read from bit 3.
auto_ranging_bit3(f) == BitAnd(ShiftRight(f, 3), 1)

\* (flags >> 2) & 0b1
auto_ranging(f) == BitAnd(ShiftRight(f, 2), 1)

\* Faulty variant: 15 bits of magnitude, as in the docstring's layout table.
magnitude15(vs) == BitAnd(vs, 32767)

\* value_and_sign & 0b11111111111111
magnitude(vs) == BitAnd(vs, 16383)

\* Faulty variant: the sign read from bit 14.
sign_bit14(vs) == BitAnd(ShiftRight(vs, 14), 1)

\* (value_and_sign >> 15) & 0b1
sign(vs) == BitAnd(ShiftRight(vs, 15), 1)

\* _transform_and_decode_data: the attributes of the object.
_transform_and_decode_data(raw_data) ==
    LET ud   == unit_and_decimal(raw_data)
        f    == flags(raw_data)
        vs   == value_and_sign(raw_data)
        dp   == BitAnd(ud, 3)
        unit == ShiftRight(ud, 3)
        sg   == sign(vs)
        mag  == magnitude(vs)
        signed == IF sg # 0 THEN -mag ELSE mag
    IN  [ raw_data       |-> raw_data,
          decimal_places |-> dp,
          overflow       |-> BitAnd(ShiftRight(ud, 2), 1),
          unit           |-> unit,
          unit_name      |-> get_unit_from_value(unit),
          data_hold_mode |-> BitAnd(f, 1),
          relative_mode  |-> BitAnd(ShiftRight(f, 1), 1),
          auto_ranging   |-> auto_ranging(f),
          low_battery    |-> BitAnd(ShiftRight(f, 3), 1),
          sign           |-> sg,
          value          |-> TrueDiv(signed, 10^dp) ]

\* Faulty variant: a payload of another length is cut or zero-padded to 6 bytes.
Owon_MultimeterData_padded(raw_data) ==
    _transform_and_decode_data(SubSeq(raw_data \o <<0, 0, 0, 0, 0, 0>>, 1, 6))

\* Owon_MultimeterData(raw_data): the object, or the exception raised.
Owon_MultimeterData(raw_data) ==
    IF Len(raw_data) # 6 THEN ValueError
    ELSE _transform_and_decode_data(raw_data)

\* flag_status_to_string
flag_status_to_string(flag_value) ==
    IF flag_value = 0 THEN "Off"
    ELSE IF flag_value = 1 THEN "On"
    ELSE "Unknown falg value."

(***************************************************************************)
(* owon_ble_monitor_v6.py: OwonBLEMonitor, the notification path           *)
(***************************************************************************)
\* 1.5 s, in ticks of half a second.
ANNOUNCE_DELAY_SEC == 3

ENABLE_LOGGING == TRUE

\* The clock stops at MaxTime ticks.
MaxTime == 6

\* The I/O call of one handler invocation that raises, if any: the first
\* exception ends the invocation, so at most one call raises in it.
IOFailures == {"none", "csv", "hold", "relative", "autorange", "value"}

\* The working copy of the tracker fields during one invocation, with what
\* the invocation has said and logged so far and the exception raised.
Self ==
    [ last_data               |-> last_data,
      last_raw_data           |-> last_raw_data,
      last_announced_raw_data |-> last_announced_raw_data,
      last_change_time        |-> last_change_time,
      last_hold               |-> last_hold,
      last_relative           |-> last_relative,
      last_autorange          |-> last_autorange,
      spoken                  |-> << >>,
      logged                  |-> << >>,
      exc                     |-> NoError ]

\* Faulty variant: logging switched off.
log_to_csv_disabled(self, data, t, fails) == self

\* log_to_csv(data): the row handed to the writer; the write may raise.
log_to_csv(self, data, t, fails) ==
    IF ~ENABLE_LOGGING THEN self
    ELSE LET row == [ timestamp      |-> t,
                      raw_data       |-> data.raw_data,
                      overflow       |-> flag_status_to_string(data.overflow),
                      data_hold_mode |-> flag_status_to_string(data.data_hold_mode),
                      relative_mode  |-> flag_status_to_string(data.relative_mode),
                      auto_ranging   |-> flag_status_to_string(data.auto_ranging),
                      low_battery    |-> flag_status_to_string(data.low_battery),
                      value          |-> data.value,
                      unit_name      |-> data.unit_name ]
         IN  [self EXCEPT !.logged = Append(@, row),
                          !.exc = IF fails THEN "OSError" ELSE NoError]

\* announce(text): tts.say, tts.runAndWait; the engine may raise.
announce(self, text, fails) ==
    IF fails THEN [self EXCEPT !.exc = "RuntimeError"]
    ELSE [self EXCEPT !.spoken = Append(@, text)]

\* "activé" if flag else "désactivé"
ModeText(flag) == IF flag # 0 THEN "active" ELSE "desactive"

\* f"Mode Hold {mode}", f"Mode Relatif {mode}", f"Mode AutoRange {mode}"
FlagMessage(name, flag) == [kind |-> name, mode |-> ModeText(flag)]

\* Faulty variant: the change instant is not recorded.
OnRawChange_keeptime(self, decoded, t) ==
    [self EXCEPT !.last_raw_data = Some(decoded.raw_data),
                 !.last_data = Some(decoded)]

\* Faulty variant: the decoded frame is not kept.
OnRawChange_nodata(self, decoded, t) ==
    [self EXCEPT !.last_raw_data = Some(decoded.raw_data),
                 !.last_change_time = t]

\* Faulty variant: a change forgets the frame announced last.
OnRawChange_forget(self, decoded, t) ==
    [self EXCEPT !.last_raw_data = Some(decoded.raw_data),
                 !.last_change_time = t,
                 !.last_data = Some(decoded),
                 !.last_announced_raw_data = None]

\* lines 145-147
OnRawChange(self, decoded, t) ==
    [self EXCEPT !.last_raw_data = Some(decoded.raw_data),
                 !.last_change_time = t,
                 !.last_data = Some(decoded)]

\* lines 152-155
CheckHold(self, decoded, fail) ==
    IF self.exc # NoError THEN self
    ELSE IF decoded.data_hold_mode # self.last_hold
    THEN LET said == announce(self, FlagMessage("Mode Hold", decoded.data_hold_mode),
                              fail = "hold")
         IN  IF said.exc # NoError THEN said
             ELSE [said EXCEPT !.last_hold = decoded.data_hold_mode]
    ELSE self

\* Faulty variant: the relative flag is announced but not remembered.
CheckRelative_nomemo(self, decoded, fail) ==
    IF self.exc # NoError THEN self
    ELSE IF decoded.relative_mode # self.last_relative
    THEN announce(self, FlagMessage("Mode Relatif", decoded.relative_mode),
                  fail = "relative")
    ELSE self

\* lines 157-160
CheckRelative(self, decoded, fail) ==
    IF self.exc # NoError THEN self
    ELSE IF decoded.relative_mode # self.last_relative
    THEN LET said == announce(self, FlagMessage("Mode Relatif", decoded.relative_mode),
                              fail = "relative")
         IN  IF said.exc # NoError THEN said
             ELSE [said EXCEPT !.last_relative = decoded.relative_mode]
    ELSE self

\* lines 162-165
CheckAutoRange(self, decoded, fail) ==
    IF self.exc # NoError THEN self
    ELSE IF decoded.auto_ranging # self.last_autorange
    THEN LET said == announce(self, FlagMessage("Mode AutoRange", decoded.auto_ranging),
                              fail = "autorange")
         IN  IF said.exc # NoError THEN said
             ELSE [said EXCEPT !.last_autorange = decoded.auto_ranging]
    ELSE self

\* Faulty variant: the frame is remembered only once its row is written.
ChangedBranch_logfirst(self, decoded, t, fail) ==
    IF self.last_raw_data # Some(decoded.raw_data)
    THEN LET recorded == log_to_csv(self, decoded, t, fail = "csv")
         IN  IF recorded.exc # NoError THEN recorded
             ELSE CheckAutoRange(CheckRelative(CheckHold(OnRawChange(recorded, decoded, t),
                                                         decoded, fail),
                                               decoded, fail),
                                 decoded, fail)
    ELSE self

\* Faulty variant: frames are compared by their decoded attributes.
ChangedBranch_masked(self, decoded, t, fail) ==
    IF \/ self.last_data = None
       \/ [self.last_data[1] EXCEPT !.raw_data = << >>] # [decoded EXCEPT !.raw_data = << >>]
    THEN LET updated == OnRawChange(self, decoded, t)
             recorded == log_to_csv(updated, decoded, t, fail = "csv")
         IN  CheckAutoRange(CheckRelative(CheckHold(recorded, decoded, fail),
                                          decoded, fail),
                            decoded, fail)
    ELSE self

\* lines 144-165: the branch taken when the raw frame differs from the last one.
ChangedBranch(self, decoded, t, fail) ==
    IF self.last_raw_data # Some(decoded.raw_data)
    THEN LET updated == OnRawChange(self, decoded, t)
             recorded == log_to_csv(updated, decoded, t, fail = "csv")
         IN  CheckAutoRange(CheckRelative(CheckHold(recorded, decoded, fail),
                                          decoded, fail),
                            decoded, fail)
    ELSE self

\* The text of the stable-value announcement (lines 170-171).
ValueMessage(data) ==
    [ kind      |-> "value",
      value     |-> data.value,
      unit_name |-> data.unit_name,
      autorange |-> ModeText(data.auto_ranging) ]

\* Faulty variant: the delay is not waited for.
AnnounceDue_nodelay(self, t) ==
    /\ self.last_data # None
    /\ self.last_announced_raw_data # self.last_raw_data

\* lines 167-169
AnnounceDue(self, t) ==
    /\ self.last_data # None
    /\ self.last_announced_raw_data # self.last_raw_data
    /\ t - self.last_change_time >= ANNOUNCE_DELAY_SEC

\* Faulty variant: the announced frame is not remembered.
DebounceCheck_noset(self, t, fail) ==
    IF self.exc # NoError THEN self
    ELSE IF AnnounceDue(self, t)
    THEN announce(self, ValueMessage(self.last_data[1]), fail = "value")
    ELSE self

\* Faulty variant: the announcement waits for the delay to be exceeded.
DebounceCheck_late(self, t, fail) ==
    IF self.exc # NoError THEN self
    ELSE IF AnnounceDue(self, t) /\ t - self.last_change_time > ANNOUNCE_DELAY_SEC
    THEN LET said == announce(self, ValueMessage(self.last_data[1]), fail = "value")
         IN  IF said.exc # NoError THEN said
             ELSE [said EXCEPT !.last_announced_raw_data = self.last_raw_data]
    ELSE self

\* lines 167-173
DebounceCheck(self, t, fail) ==
    IF self.exc # NoError THEN self
    ELSE IF AnnounceDue(self, t)
    THEN LET said == announce(self, ValueMessage(self.last_data[1]), fail = "value")
         IN  IF said.exc # NoError THEN said
             ELSE [said EXCEPT !.last_announced_raw_data = self.last_raw_data]
    ELSE self

\* The payloads the transport delivers: frames of 6 bytes, and payloads of
\* another length.
Frames ==
    { <<35, 240, 4, 0, 207, 12>>,     \* 3.279 VOLT DC, AutoRange
      <<35, 240, 5, 0, 207, 12>>,     \* the same with Hold
      <<35, 240, 4, 0, 208, 12>>,     \* 3.280
      <<35, 240, 4, 7, 207, 12>>,     \* 3.279, byte 3 (unused) differs
      <<35, 240, 2, 0, 207, 12>> }    \* Relative, no AutoRange

BadPayloads ==
    { <<35, 240, 4, 0, 207>>, <<35, 240, 4, 0, 207, 12, 0>> }

\* Frames that differ from the first one in unused bits only: byte 3, and
\* bits 4 and 7 of byte 2.
ReservedFrames ==
    { <<35, 240, 4, 0, 207, 12>>,
      <<35, 240, 4, 7, 207, 12>>,
      <<35, 240, 20, 0, 207, 12>>,
      <<35, 240, 132, 0, 207, 12>> }

Payloads == Frames \cup BadPayloads \cup ReservedFrames

\* Owon_MultimeterData(list(data)) for each payload, computed once.
Decoded == [data \in Payloads |-> Owon_MultimeterData(data)]

\* The body of the try block, lines 141-173; the except clause keeps the
\* exception from the caller.
HandlerBody(self, data, t, fail) ==
    LET decoded == Decoded[data]
    IN  IF decoded = ValueError THEN [self EXCEPT !.exc = "ValueError"]
        ELSE DebounceCheck(ChangedBranch(self, decoded, t, fail), t, fail)

(***************************************************************************)
(* The monitor: its state after __init__, the clock, the notifications.    *)
(***************************************************************************)
\* __init__, lines 88-94, with the clock at the construction instant.
InitMonitor ==
    /\ last_data = None
    /\ last_raw_data = None
    /\ last_announced_raw_data = None
    /\ now = 0
    /\ last_change_time = now
    /\ last_hold = 0
    /\ last_relative = 0
    /\ last_autorange = 0
    /\ notif = None
    /\ spoken = << >>
    /\ logged = << >>
    /\ caught = NoError
    /\ value_announcements = 0
    /\ since_frame = 0
    /\ quick_frame = FALSE
    /\ quick_burst = FALSE
    /\ changed_in_search = 0
    /\ client = None
    /\ running = FALSE
    /\ connected = FALSE
    /\ thread = None
    /\ pc = "idle"
    /\ utter = None
    /\ pending = FALSE
    /\ session_open = FALSE
    /\ is_connected = FALSE
    /\ subscribed = FALSE
    /\ speaking = {}
    /\ mpc = "idle"
    /\ mlocal = None
    /\ seen = {}
    /\ stopped_in = "none"
    /\ passes_after_stop = 0
    /\ waiting_said = 0
    /\ error_pending = FALSE

InitHarness ==
    /\ arg = None
    /\ fields = None
    /\ ret = None

Init == InitMonitor /\ InitHarness

\* Half a second passes with no notification.
Tick ==
    /\ now < MaxTime
    /\ now' = now + 1
    /\ notif' = None
    /\ spoken' = << >>
    /\ logged' = << >>
    /\ caught' = NoError
    /\ since_frame' = IF since_frame < ANNOUNCE_DELAY_SEC THEN since_frame + 1 ELSE since_frame
    /\ UNCHANGED << trackerVars, value_announcements, quick_frame, quick_burst,
                    changed_in_search, lifeVars, harnessVars >>

ValueMessages(said) == SelectSeq(said, LAMBDA m : m.kind = "value")

\* handle_notification(handle, data), lines 138-176.
handle_notification(data, fail) ==
    \E self \in {HandlerBody(Self, data, now, fail)} :
        /\ last_data' = self.last_data
        /\ last_raw_data' = self.last_raw_data
        /\ last_announced_raw_data' = self.last_announced_raw_data
        /\ last_change_time' = self.last_change_time
        /\ last_hold' = self.last_hold
        /\ last_relative' = self.last_relative
        /\ last_autorange' = self.last_autorange
        /\ spoken' = self.spoken
        /\ logged' = self.logged
        /\ caught' = self.exc
        /\ notif' = Some(data)
        /\ value_announcements' =
              (IF self.last_raw_data # last_raw_data THEN 0 ELSE value_announcements)
              + Len(ValueMessages(self.spoken))
        /\ since_frame' = IF Decoded[data] = ValueError THEN since_frame ELSE 0
        /\ quick_frame' = IF Decoded[data] = ValueError THEN quick_frame
                          ELSE since_frame < ANNOUNCE_DELAY_SEC
        /\ quick_burst' = IF Decoded[data] = ValueError THEN quick_burst
                          ELSE IF self.last_raw_data # last_raw_data THEN TRUE
                          ELSE quick_burst /\ since_frame < ANNOUNCE_DELAY_SEC
        /\ changed_in_search' = IF self.last_raw_data # last_raw_data THEN waiting_said
                                ELSE changed_in_search
        /\ seen' = IF mpc = "idle" THEN seen ELSE seen \cup {self.last_data}
        /\ UNCHANGED << now, loopVars, loopObserverVars, speaking, mpc, mlocal,
                        harnessVars >>

Next ==
    \/ Tick
    \/ \E data \in Frames \cup BadPayloads, fail \in IOFailures :
          handle_notification(data, fail)

Spec == Init /\ [][Next]_vars

\* The handler fed with frames that differ in unused bits only.
NextReserved ==
    \/ Tick
    \/ \E data \in ReservedFrames, fail \in IOFailures : handle_notification(data, fail)

SpecReserved == Init /\ [][NextReserved]_vars

\* The handler when neither the speech engine nor the CSV file fails.
NextNoFail ==
    \/ Tick
    \/ \E data \in Frames \cup BadPayloads : handle_notification(data, "none")

SpecNoFail == Init /\ [][NextNoFail]_vars

(***************************************************************************)
(* The connection loop: run() and wait_for_device(), executed by the       *)
(* thread that start() creates. One action is one statement, or one await  *)
(* from its call to its return. handle_notification is called by the event *)
(* loop of the same thread, hence only while run() is suspended in an      *)
(* await; start(), stop() and the on-demand reads are called from another  *)
(* thread and interleave with every statement.                             *)
(***************************************************************************)
\* The observers count up to CountCap.
CountCap == 2

CountUp(n) == IF n < CountCap THEN n + 1 ELSE n

\* The texts run() and wait_for_device() announce (lines 216, 222, 235, 242).
WAITING == "En attente de connexion au multimetre OWON 16."

FOUND == "Multimetre OWON detecte. Connexion."

READING == "Lecture des mesures en cours."

DISCONNECTED == "Multimetre deconnecte."

LoopMessage(text) == [kind |-> text]

\* The announcements made inside the async with block (lines 235, 242).
InsideWith(text) == text \in {READING, DISCONNECTED}

\* The statement that follows announce(text).
AfterAnnounce(text) ==
    CASE text = WAITING      -> "discover"
      [] text = FOUND        -> "connect"
      [] text = READING      -> "poll"
      [] text = DISCONNECTED -> "aexit"

\* Faulty variant: the session is not a context manager, an exception goes
\* straight to the except clause.
AfterRaise_noteardown(inside_with) == "except"

\* Where an exception raised in the try block of run() goes: through the exit
\* of the async with block when raised inside it, then to the except clause.
AfterRaise(inside_with) == IF inside_with THEN "aexit" ELSE "except"

\* Faulty variant: the liveness poll does not look at running.
PollContinues_ignorestop(run_flag, link) == link

\* The condition of the liveness poll, line 237.
PollContinues(run_flag, link) == run_flag /\ link

\* The phase of the connection state machine run() is in.
Phase ==
    IF pc = "idle" THEN "Idle"
    ELSE IF pc = "done" THEN "Terminated"
    ELSE IF pc = "while_running" THEN "Top"
    ELSE IF pc \in {"discover", "sleep_2"} THEN "Searching"
    ELSE IF pc \in {"connect", "start_notify"} THEN "Connected"
    ELSE IF pc \in {"poll", "sleep_1"} THEN "Streaming"
    ELSE IF pc \in {"check", "aexit"} THEN "Leaving"
    ELSE IF pc \in {"except", "backoff"} THEN "Backoff"
    ELSE IF utter \in {Some(WAITING), Some(FOUND)} THEN "Searching"
    ELSE IF utter = Some(READING) THEN "Connected"
    ELSE "Leaving"

\* Faulty variant: the statements of the loop forget the frame announced last.
LoopQuiet_reset(exc, said) ==
    /\ notif' = None
    /\ spoken' = said
    /\ logged' = << >>
    /\ caught' = exc
    /\ last_announced_raw_data' = None
    /\ UNCHANGED << last_data, last_raw_data, last_change_time, last_hold,
                    last_relative, last_autorange, now, observerVars, readerVars,
                    harnessVars >>

\* What a statement of run() leaves alone, and what it reports: the exception
\* it raised and the texts it spoke.
LoopQuiet(exc, said) ==
    /\ notif' = None
    /\ spoken' = said
    /\ logged' = << >>
    /\ caught' = exc
    /\ UNCHANGED << trackerVars, now, observerVars, readerVars, harnessVars >>

\* line 228: while self.running
run_while ==
    /\ pc = "while_running"
    /\ IF running
       THEN pc' = "announce" /\ utter' = Some(WAITING)
       ELSE pc' = "done" /\ utter' = None
    /\ LoopQuiet(NoError, << >>)
    /\ UNCHANGED << client, running, connected, thread, pending, session_open,
                    is_connected, subscribed, speaking, loopObserverVars >>

\* run() enters announce(text): tts.say, tts.runAndWait (lines 134-136).
announce_call ==
    /\ pc = "announce"
    /\ pc' = "speaking"
    /\ speaking' = speaking \cup {"loop"}
    /\ error_pending' = IF utter = Some(DISCONNECTED) THEN FALSE ELSE error_pending
    /\ LoopQuiet(NoError, << >>)
    /\ UNCHANGED << client, running, connected, thread, utter, pending, session_open,
                    is_connected, subscribed, stopped_in, passes_after_stop,
                    waiting_said >>

\* announce(text) returns to run(), or the speech engine raises.
announce_return(fail) ==
    /\ pc = "speaking"
    /\ speaking' = speaking \ {"loop"}
    /\ utter' = None
    /\ IF fail
       THEN /\ pc' = AfterRaise(InsideWith(utter[1]))
            /\ pending' = InsideWith(utter[1])
            /\ waiting_said' = waiting_said
            /\ LoopQuiet("RuntimeError", << >>)
       ELSE /\ pc' = AfterAnnounce(utter[1])
            /\ pending' = pending
            /\ waiting_said' = IF utter = Some(WAITING) THEN CountUp(waiting_said)
                               ELSE waiting_said
            /\ LoopQuiet(NoError, << LoopMessage(utter[1]) >>)
    /\ UNCHANGED << client, running, connected, thread, session_open, is_connected,
                    subscribed, stopped_in, passes_after_stop, error_pending >>

\* wait_for_device, lines 218-224: one discovery pass. It finds the device,
\* finds nothing, or raises.
wait_for_device_discover(outcome) ==
    /\ pc = "discover"
    /\ passes_after_stop' = IF running THEN passes_after_stop
                            ELSE CountUp(passes_after_stop)
    /\ CASE outcome = "found" ->
              /\ pc' = "announce"
              /\ utter' = Some(FOUND)
              /\ error_pending' = FALSE
              /\ LoopQuiet(NoError, << >>)
         [] outcome = "none" ->
              /\ pc' = "sleep_2"
              /\ utter' = None
              /\ error_pending' = FALSE
              /\ LoopQuiet(NoError, << >>)
         [] outcome = "error" ->
              /\ pc' = AfterRaise(FALSE)
              /\ utter' = None
              /\ error_pending' = FALSE
              /\ LoopQuiet("BleakError", << >>)
    /\ UNCHANGED << client, running, connected, thread, pending, session_open,
                    is_connected, subscribed, speaking, stopped_in, waiting_said >>

\* Faulty variant: the announcement of line 216 is inside the while True loop.
wait_for_device_sleep_reannounce ==
    /\ pc = "sleep_2"
    /\ pc' = "announce"
    /\ utter' = Some(WAITING)
    /\ LoopQuiet(NoError, << >>)
    /\ UNCHANGED << client, running, connected, thread, pending, session_open,
                    is_connected, subscribed, speaking, loopObserverVars >>

\* wait_for_device, line 224: await asyncio.sleep(2) returns.
wait_for_device_sleep ==
    /\ pc = "sleep_2"
    /\ pc' = "discover"
    /\ LoopQuiet(NoError, << >>)
    /\ UNCHANGED << client, running, connected, thread, utter, pending, session_open,
                    is_connected, subscribed, speaking, loopObserverVars >>

\* lines 231-233: async with BleakClient(device) as client connects, then
\* self.client and self.connected are set; or the connection raises.
run_connect(ok) ==
    /\ pc = "connect"
    /\ IF ok
       THEN /\ session_open' = TRUE
            /\ is_connected' = TRUE
            /\ client' = Some("client")
            /\ connected' = TRUE
            /\ pc' = "start_notify"
            /\ error_pending' = error_pending
            /\ LoopQuiet(NoError, << >>)
       ELSE /\ pc' = AfterRaise(FALSE)
            /\ error_pending' = TRUE
            /\ LoopQuiet("BleakError", << >>)
            /\ UNCHANGED << session_open, is_connected, client, connected >>
    /\ UNCHANGED << running, thread, utter, pending, subscribed, speaking,
                    stopped_in, passes_after_stop, waiting_said >>

\* line 234: await client.start_notify(CHARACTERISTIC_UUID, handle_notification)
run_start_notify(ok) ==
    /\ pc = "start_notify"
    /\ ok => is_connected
    /\ IF ok
       THEN /\ subscribed' = TRUE
            /\ pc' = "announce"
            /\ utter' = Some(READING)
            /\ pending' = pending
            /\ error_pending' = error_pending
            /\ LoopQuiet(NoError, << >>)
       ELSE /\ pc' = AfterRaise(TRUE)
            /\ pending' = TRUE
            /\ error_pending' = TRUE
            /\ LoopQuiet("BleakError", << >>)
            /\ UNCHANGED << subscribed, utter >>
    /\ UNCHANGED << client, running, connected, thread, session_open, is_connected,
                    speaking, stopped_in, passes_after_stop, waiting_said >>

\* line 237: while self.running and client.is_connected
run_poll ==
    /\ pc = "poll"
    /\ pc' = IF PollContinues(running, is_connected) THEN "sleep_1" ELSE "check"
    /\ LoopQuiet(NoError, << >>)
    /\ UNCHANGED << client, running, connected, thread, utter, pending, session_open,
                    is_connected, subscribed, speaking, loopObserverVars >>

\* line 238: await asyncio.sleep(1) returns.
run_sleep ==
    /\ pc = "sleep_1"
    /\ pc' = "poll"
    /\ LoopQuiet(NoError, << >>)
    /\ UNCHANGED << client, running, connected, thread, utter, pending, session_open,
                    is_connected, subscribed, speaking, loopObserverVars >>

\* Faulty variant: the disconnection is not announced.
run_check_silent ==
    /\ pc = "check"
    /\ connected' = (connected /\ is_connected)
    /\ pc' = "aexit"
    /\ utter' = None
    /\ LoopQuiet(NoError, << >>)
    /\ UNCHANGED << client, running, thread, pending, session_open, is_connected,
                    subscribed, speaking, loopObserverVars >>

\* lines 240-242: if not client.is_connected
run_check ==
    /\ pc = "check"
    /\ IF ~is_connected
       THEN connected' = FALSE /\ pc' = "announce" /\ utter' = Some(DISCONNECTED)
       ELSE connected' = connected /\ pc' = "aexit" /\ utter' = None
    /\ LoopQuiet(NoError, << >>)
    /\ UNCHANGED << client, running, thread, pending, session_open, is_connected,
                    subscribed, speaking, loopObserverVars >>

\* The exit of the async with block of line 231: the client disconnects,
\* whether the block ends or an exception leaves it.
run_aexit ==
    /\ pc = "aexit"
    /\ session_open' = FALSE
    /\ subscribed' = FALSE
    /\ is_connected' = FALSE
    /\ pc' = IF pending THEN "except" ELSE "while_running"
    /\ pending' = FALSE
    /\ LoopQuiet(NoError, << >>)
    /\ UNCHANGED << client, running, connected, thread, utter, speaking,
                    loopObserverVars >>

\* Faulty variant: the exception ends run().
run_except_fatal ==
    /\ pc = "except"
    /\ pc' = "done"
    /\ pending' = FALSE
    /\ LoopQuiet(NoError, << >>)
    /\ UNCHANGED << client, running, connected, thread, utter, session_open,
                    is_connected, subscribed, speaking, loopObserverVars >>

\* lines 244-246: except Exception
run_except ==
    /\ pc = "except"
    /\ connected' = FALSE
    /\ pc' = "backoff"
    /\ pending' = FALSE
    /\ LoopQuiet(NoError, << >>)
    /\ UNCHANGED << client, running, thread, utter, session_open, is_connected,
                    subscribed, speaking, loopObserverVars >>

\* line 247: await asyncio.sleep(2) returns.
run_backoff ==
    /\ pc = "backoff"
    /\ pc' = "while_running"
    /\ LoopQuiet(NoError, << >>)
    /\ UNCHANGED << client, running, connected, thread, utter, pending, session_open,
                    is_connected, subscribed, speaking, loopObserverVars >>

\* lines 256-258: asyncio.run(self.run()) returns and the thread ends.
_run_async ==
    /\ pc = "done"
    /\ thread = Some("alive")
    /\ thread' = Some("finished")
    /\ LoopQuiet(NoError, << >>)
    /\ UNCHANGED << client, running, connected, pc, utter, pending, session_open,
                    is_connected, subscribed, speaking, loopObserverVars >>

\* The multimeter goes out of reach or is switched off.
device_disconnects ==
    /\ session_open
    /\ is_connected
    /\ is_connected' = FALSE
    /\ LoopQuiet(NoError, << >>)
    /\ UNCHANGED << client, running, connected, thread, pc, utter, pending,
                    session_open, subscribed, speaking, loopObserverVars >>

\* start(), lines 249-254, called from the main thread.
start ==
    /\ IF thread = None \/ thread = Some("finished")
       THEN /\ running' = TRUE
            /\ thread' = Some("alive")
            /\ pc' = "while_running"
            /\ stopped_in' = "none"
            /\ passes_after_stop' = 0
            /\ waiting_said' = 0
            /\ error_pending' = FALSE
       ELSE UNCHANGED << running, thread, pc, loopObserverVars >>
    /\ LoopQuiet(NoError, << >>)
    /\ UNCHANGED << client, connected, utter, pending, session_open, is_connected,
                    subscribed, speaking >>

\* stop(), lines 260-262, called from the main thread.
stop ==
    /\ running' = FALSE
    /\ stopped_in' = IF running THEN Phase ELSE stopped_in
    /\ LoopQuiet(NoError, << >>)
    /\ UNCHANGED << client, connected, thread, pc, utter, pending, session_open,
                    is_connected, subscribed, speaking, passes_after_stop,
                    waiting_said, error_pending >>

\* The payloads and the failures of the runs of the connection loop.
RunPayloads ==
    { <<35, 240, 2, 0, 207, 12>>,     \* 3.279 VOLT DC, Relative, no AutoRange
      <<35, 240, 4, 0, 208, 12>>,     \* 3.280 VOLT DC, AutoRange
      <<35, 240, 4, 0, 207>> }

RunFailures == {"none", "csv", "autorange"}

\* The event loop calls handle_notification: the characteristic is
\* subscribed, the link is up and run() is suspended in its 1 s sleep.
Deliver(data, fail) ==
    /\ subscribed
    /\ is_connected
    /\ pc = "sleep_1"
    /\ handle_notification(data, fail)

\* The statements of the thread that executes run().
LoopNext ==
    \/ run_while
    \/ announce_call
    \/ \E fail \in BOOLEAN : announce_return(fail)
    \/ \E outcome \in {"found", "none", "error"} : wait_for_device_discover(outcome)
    \/ wait_for_device_sleep
    \/ \E ok \in BOOLEAN : run_connect(ok)
    \/ \E ok \in BOOLEAN : run_start_notify(ok)
    \/ run_poll
    \/ run_sleep
    \/ run_check
    \/ run_aexit
    \/ run_except
    \/ run_backoff
    \/ _run_async

NextRun ==
    \/ start
    \/ stop
    \/ LoopNext
    \/ device_disconnects
    \/ \E data \in RunPayloads, fail \in RunFailures : Deliver(data, fail)

SpecRun == Init /\ [][NextRun]_vars

\* The monitor with the clock: notifications arrive at different instants,
\* within one session and across sessions.
ReconnectFailures == {"none", "value"}

NextReconnect ==
    \/ start
    \/ stop
    \/ LoopNext
    \/ device_disconnects
    \/ \E data \in RunPayloads, fail \in ReconnectFailures : Deliver(data, fail)
    \/ Tick

SpecReconnect == Init /\ [][NextReconnect]_vars

\* The thread that executes run() is scheduled as long as it has a statement
\* to execute; every sleep and every bounded await returns.
FairSpecRun == SpecRun /\ WF_vars(LoopNext)

(***************************************************************************)
(* The on-demand reads, get_measure() and get_measure_and_say(), called    *)
(* from the main thread while the thread of run() executes the handler.    *)
(* Each read of self.last_data is one step: the interpreter may switch     *)
(* threads between any two of them.                                        *)
(***************************************************************************)
\* "AutoRange activé" if ... else "AutoRange désactivé" (lines 188, 208)
AutorangeText(flag) == IF flag # 0 THEN "AutoRange active" ELSE "AutoRange desactive"

\* What the reads of one call have fetched so far.
NoMeasure == [value |-> None, unit |-> None, autorange |-> None]

\* The dictionary of lines 189-193, or 195-199 when data is None: what a
\* call returns or announces when all its reads see data.
MeasureOf(data) ==
    IF data = None THEN NoMeasure
    ELSE [ value     |-> data[1].value,
           unit      |-> data[1].unit_name,
           autorange |-> AutorangeText(data[1].auto_ranging) ]

\* What a statement of the main thread leaves alone.
ReaderQuiet(exc, said) ==
    /\ notif' = None
    /\ spoken' = said
    /\ logged' = << >>
    /\ caught' = exc
    /\ UNCHANGED << trackerVars, now, observerVars, loopVars, loopObserverVars,
                    harnessVars >>

\* lines 187 and 207: if self.last_data, the first read of the call op.
measure_if(op) ==
    /\ mpc = "idle"
    /\ seen' = {last_data}
    /\ mlocal' = Some([op |-> op, got |-> NoMeasure])
    /\ mpc' = IF last_data # None THEN "autorange"
              ELSE IF op = "get_measure" THEN "idle"
              ELSE "announce"
    /\ ReaderQuiet(NoError, << >>)
    /\ UNCHANGED speaking

\* lines 188 and 208: self.last_data.auto_ranging
measure_autorange ==
    /\ mpc = "autorange"
    /\ mlocal' = Some([mlocal[1] EXCEPT
                          !.got.autorange = AutorangeText(last_data[1].auto_ranging)])
    /\ mpc' = "value"
    /\ ReaderQuiet(NoError, << >>)
    /\ UNCHANGED << seen, speaking >>

\* lines 190 and 209: self.last_data.value
measure_value ==
    /\ mpc = "value"
    /\ mlocal' = Some([mlocal[1] EXCEPT !.got.value = last_data[1].value])
    /\ mpc' = "unit"
    /\ ReaderQuiet(NoError, << >>)
    /\ UNCHANGED << seen, speaking >>

\* lines 191 and 209: self.last_data.unit_name; get_measure then returns.
measure_unit ==
    /\ mpc = "unit"
    /\ mlocal' = Some([mlocal[1] EXCEPT !.got.unit = last_data[1].unit_name])
    /\ mpc' = IF mlocal[1].op = "get_measure" THEN "idle" ELSE "announce"
    /\ ReaderQuiet(NoError, << >>)
    /\ UNCHANGED << seen, speaking >>

\* lines 210 and 212: get_measure_and_say enters announce(message).
measure_announce ==
    /\ mpc = "announce"
    /\ mpc' = "speaking"
    /\ speaking' = speaking \cup {"main"}
    /\ ReaderQuiet(NoError, << >>)
    /\ UNCHANGED << mlocal, seen >>

\* announce(message) returns, or the speech engine raises to the caller.
measure_announced(fail) ==
    /\ mpc = "speaking"
    /\ mpc' = "idle"
    /\ speaking' = speaking \ {"main"}
    /\ IF fail
       THEN ReaderQuiet("RuntimeError", << >>)
       ELSE ReaderQuiet(NoError,
                << IF mlocal[1].got = NoMeasure
                   THEN [kind |-> "Aucune mesure disponible"]
                   ELSE [ kind      |-> "value",
                          value     |-> mlocal[1].got.value,
                          unit_name |-> mlocal[1].got.unit,
                          autorange |-> mlocal[1].got.autorange ] >>)
    /\ UNCHANGED << mlocal, seen >>

ReaderNext ==
    \/ \E op \in {"get_measure", "get_measure_and_say"} : measure_if(op)
    \/ measure_autorange
    \/ measure_value
    \/ measure_unit
    \/ measure_announce
    \/ \E fail \in BOOLEAN : measure_announced(fail)

NextRead ==
    \/ start
    \/ stop
    \/ LoopNext
    \/ device_disconnects
    \/ \E data \in RunPayloads, fail \in RunFailures : Deliver(data, fail)
    \/ ReaderNext

SpecRead == Init /\ [][NextRead]_vars

(***************************************************************************)
(* The decoder and the unit lookup as pure functions: the argument is      *)
(* drawn from a bounded set, one action applies the function.              *)
(***************************************************************************)
\* Sampled magnitudes are the multiples of MagStride below 2^14, with the
\* magnitudes of the worked examples and the largest one.
MagStride == 4096

MagSamples == {m \in 0..(2^14 - 1) : m % MagStride = 0} \cup {1, 3279, 2^14 - 1}

UnitSamples == {0, 7684, 7718, 2^13 - 1}

\* The bit fields of a frame, per the layout in the class docstring
\* (owon_decoder.py, lines 49-60), bit 14 of the value word apart.
FieldSets ==
    [ decimal_places : 0..3,
      overflow       : 0..1,
      unit           : UnitSamples,
      flags          : 0..15,
      not_used_1     : {0, 15},
      not_used_2     : {0, 255},
      magnitude      : MagSamples,
      bit14          : 0..1,
      sign           : 0..1 ]

\* The 6 bytes that carry the fields f, least significant byte first.
BuildFrame(f) ==
    LET low  == f.decimal_places + 4 * f.overflow + 8 * f.unit
        high == f.magnitude + (2^14) * f.bit14 + (2^15) * f.sign
    IN  << low % 256, low \div 256,
           f.flags + 16 * f.not_used_1,
           f.not_used_2,
           high % 256, high \div 256 >>

\* Payloads of every length from 0 to 8 but 6.
WrongLengths ==
    { SubSeq(<<35, 240, 4, 0, 207, 12, 0, 0>>, 1, n) : n \in (0..8) \ {6} }

InitDecode ==
    /\ InitMonitor
    /\ ret = None
    /\ \/ \E f \in FieldSets : fields = Some(f) /\ arg = BuildFrame(f)
       \/ \E w \in WrongLengths : fields = None /\ arg = w

\* decoded = Owon_MultimeterData(list(data))
Decode ==
    /\ ret = None
    /\ ret' = Some(Owon_MultimeterData(arg))
    /\ UNCHANGED << trackerVars, envVars, arg, fields >>

NextDecode == Decode

SpecDecode == InitDecode /\ [][NextDecode]_vars

\* Every code of the 13-bit function selector.
InitUnit ==
    /\ InitMonitor
    /\ ret = None
    /\ fields = None
    /\ arg \in 0..(2^13 - 1)

\* unit_name = get_unit_from_value(unit)
Resolve ==
    /\ ret = None
    /\ ret' = Some(get_unit_from_value(arg))
    /\ UNCHANGED << trackerVars, envVars, arg, fields >>

NextUnit == Resolve

SpecUnit == InitUnit /\ [][NextUnit]_vars

(***************************************************************************)
(* Properties of the decoder (SpecDecode) and of the unit lookup           *)
(* (SpecUnit).                                                             *)
(***************************************************************************)
VOLT_DC == <<"V","O","L","T"," ","D","C">>

MEGA_OHM == <<"M","E","G","A"," ","O","H","M">>

Example1 == <<35, 240, 4, 0, 207, 12>>

Example2 == <<55, 241, 4, 0, 255, 127>>

\* Bit k of the byte b.
Bit(b, k) == (b \div 2^k) % 2

\* The attributes of a decoded object, raw_data apart.
Attributes(d) == [d EXCEPT !.raw_data = << >>]

\* The attributes the worked example lists, AutoRange apart.
Example1Attributes(d) ==
    /\ d.decimal_places = 3
    /\ d.overflow = 0
    /\ d.unit = 7684
    /\ d.unit_name = VOLT_DC
    /\ d.data_hold_mode = 0
    /\ d.relative_mode = 0
    /\ d.low_battery = 0
    /\ d.sign = 0
    /\ d.value = <<3279, 1000>>

\* C1 as stated: [35, 240, 4, 0, 207, 12] decodes to decimalPlaces 3,
\* overflow 0, functionCode 7684 "VOLT DC", Hold 0, Relative 0, AutoRange 0,
\* lowBattery 0, sign 0 and value 3.279.
C1_Original ==
    (arg = Example1 /\ ret # None) =>
        (Example1Attributes(ret[1]) /\ ret[1].auto_ranging = 0)

\* C1 amended: the same frame decodes to the same attributes, but with
\* AutoRange 1: byte 2 is 4, whose bit 2 is set.
C1_Example ==
    (arg = Example1 /\ ret # None) =>
        (Example1Attributes(ret[1]) /\ ret[1].auto_ranging = 1)

C1_Witness == arg = Example1 /\ ret # None /\ ret[1].raw_data = Example1

TableCodes == {OWON_FUNCTION[i][2] : i \in DOMAIN OWON_FUNCTION}

\* name is key with every underscore turned into a space.
IsKeyWithSpaces(name, key) ==
    /\ Len(name) = Len(key)
    /\ \A i \in DOMAIN key :
          name[i] = (IF key[i] = "_" THEN " " ELSE key[i])

\* The lookup of the codes of the table.
TableCodesResolved ==
    /\ Len(OWON_FUNCTION) = 24
    /\ Cardinality(TableCodes) = 24
    /\ \A i \in DOMAIN OWON_FUNCTION :
          arg = OWON_FUNCTION[i][2] => IsKeyWithSpaces(ret[1], OWON_FUNCTION[i][1])
    /\ arg = 7684 => ret[1] = VOLT_DC

FrameHandled == notif # None /\ Len(notif[1]) = 6

\* The last operation made a stable-value announcement.
ValueSaid == ValueMessages(spoken) # << >>

\* C4: a payload whose length is not 6 is refused by the decoder, and the
\* handler then changes no tracker field, says nothing, logs nothing, makes no
\* stable-value announcement even when one is due, and swallows the
\* ValueError.
C4_WrongLength ==
    [][ (notif' # None /\ Len(notif'[1]) # 6) =>
            /\ Decoded[notif'[1]] = ValueError
            /\ UNCHANGED trackerVars
            /\ UNCHANGED value_announcements
            /\ spoken' = << >>
            /\ logged' = << >>
            /\ caught' = "ValueError" ]_vars

C4_Witness ==
    /\ notif # None
    /\ Len(notif[1]) # 6
    /\ caught = "ValueError"
    /\ AnnounceDue(Self, now)
    /\ spoken = << >>

\* C6 as stated: with frames identical to F arriving faster than the
\* debounce interval, the stable-value announcement of F comes only once the
\* interval has elapsed after the last arrival: none is made while every
\* frame since F first came has followed the one before it by less than the
\* interval.
C6_Original == ValueSaid => ~quick_burst

\* C6 amended: for frames identical to F, at most one stable-value
\* announcement is made; a frame identical to the last one is announced
\* exactly when F has not been announced, at least 1.5 s have passed since F
\* replaced the frame before it (last_change_time), and the announcer does
\* not fail, however closely the frames follow one another.
C6_Debounce ==
    [][ (notif' # None /\ Some(notif'[1]) = last_raw_data) =>
            /\ ValueSaid' <=>
                  /\ last_announced_raw_data # last_raw_data
                  /\ now - last_change_time >= ANNOUNCE_DELAY_SEC
                  /\ caught' = NoError
            /\ Len(ValueMessages(spoken')) <= 1
            /\ value_announcements' <= 1 ]_vars

C6_Witness ==
    /\ ValueSaid
    /\ notif = last_raw_data
    /\ quick_burst
    /\ now - last_change_time = ANNOUNCE_DELAY_SEC

\* C7: after the stable-value announcement of the current raw frame,
\* last_announced_raw_data equals last_raw_data, and no other one is made
\* until last_raw_data changes: at most one since the last change.
C7_AnnouncedOnce ==
    /\ value_announcements <= 1
    /\ ValueSaid => value_announcements = 1
    /\ value_announcements = 1 =>
          /\ last_announced_raw_data = last_raw_data
          /\ ~AnnounceDue(Self, now)

C7_Witness ==
    /\ value_announcements = 1
    /\ FrameHandled
    /\ notif = last_raw_data
    /\ caught = NoError
    /\ spoken = << >>
    /\ now - last_change_time > ANNOUNCE_DELAY_SEC

\* The flag announcements due for the decoded frame d with the memories
\* h, r, a, in the order Hold, Relative, AutoRange.
FlagMessagesDue(d, h, r, a) ==
    (IF d.data_hold_mode # h
        THEN << FlagMessage("Mode Hold", d.data_hold_mode) >> ELSE << >>)
    \o (IF d.relative_mode # r
        THEN << FlagMessage("Mode Relatif", d.relative_mode) >> ELSE << >>)
    \o (IF d.auto_ranging # a
        THEN << FlagMessage("Mode AutoRange", d.auto_ranging) >> ELSE << >>)

\* C8 as stated, for the calls in which the speech engine raises nothing:
\* the call that handles a decoded frame differing from last_raw_data says
\* exactly the on/off announcements of the flags that differ from their
\* memories, in the order Hold, Relative, AutoRange, and nothing else, and
\* leaves each memory at the frame's value.
C8_Original ==
    [][ (/\ notif' # None
         /\ Len(notif'[1]) = 6
         /\ last_raw_data # Some(notif'[1])
         /\ caught' # "RuntimeError") =>
            LET d == Decoded[notif'[1]]
            IN  /\ spoken' = FlagMessagesDue(d, last_hold, last_relative, last_autorange)
                /\ last_hold' = d.data_hold_mode
                /\ last_relative' = d.relative_mode
                /\ last_autorange' = d.auto_ranging ]_vars

\* C9: a frame that differs from the one before it is never followed by a
\* stable-value announcement in the same call, and between two changes at
\* most one is made.
C9_Fluctuating ==
    /\ [][ (notif' # None /\ Len(notif'[1]) = 6 /\ last_raw_data # Some(notif'[1])) =>
              /\ ~ValueSaid'
              /\ value_announcements' = 0 ]_vars
    /\ [](value_announcements <= 1)

C9_Witness ==
    /\ FrameHandled
    /\ last_change_time = now
    /\ quick_frame
    /\ now >= 2 * ANNOUNCE_DELAY_SEC
    /\ last_announced_raw_data = None
    /\ value_announcements = 0
    /\ caught = NoError

\* The row of the frame raw: its bytes, its flags as On or Off, its value
\* and unit name.
IsRowOf(row, raw) ==
    /\ row.raw_data = raw
    /\ row.overflow = (IF Bit(raw[1], 2) = 1 THEN "On" ELSE "Off")
    /\ row.data_hold_mode = (IF Bit(raw[3], 0) = 1 THEN "On" ELSE "Off")
    /\ row.relative_mode = (IF Bit(raw[3], 1) = 1 THEN "On" ELSE "Off")
    /\ row.auto_ranging = (IF Bit(raw[3], 2) = 1 THEN "On" ELSE "Off")
    /\ row.low_battery = (IF Bit(raw[3], 3) = 1 THEN "On" ELSE "Off")
    /\ row.value = Decoded[raw].value
    /\ row.unit_name = Decoded[raw].unit_name

\* C10: the CSV writer is called once, with the row of the frame, by every
\* call that handles a decoded frame differing from last_raw_data, and by
\* no other call.
C10_LoggedOnChange ==
    [][ IF notif' # None /\ Len(notif'[1]) = 6 /\ last_raw_data # Some(notif'[1])
        THEN Len(logged') = 1 /\ IsRowOf(logged'[1], notif'[1])
        ELSE logged' = << >> ]_vars

C10_Witness ==
    /\ FrameHandled
    /\ Len(logged) = 1
    /\ logged[1].raw_data = notif[1]
    /\ last_raw_data = notif
    /\ last_announced_raw_data # None
    /\ last_announced_raw_data # last_raw_data

(***************************************************************************)
(* Properties of the connection loop and of the handler it subscribes      *)
(* (SpecRun, FairSpecRun).                                                 *)
(***************************************************************************)
\* C11: when the CSV write of a changed frame raises, handle_notification
\* swallows the exception and returns to the event loop: the fields and the
\* position of the connection loop, the session and the subscription are as
\* before, and last_raw_data and last_data hold the new frame.
C11_SinkFailure ==
    [][ caught' = "OSError" =>
            /\ notif' # None
            /\ Len(logged') = 1
            /\ last_raw_data # notif'
            /\ last_raw_data' = notif'
            /\ last_data' = Some(Decoded[notif'[1]])
            /\ last_data'[1].raw_data = notif'[1]
            /\ UNCHANGED loopVars
            /\ pc' = "sleep_1" ]_vars

C11_Witness ==
    /\ caught = "OSError"
    /\ pc = "sleep_1"
    /\ connected
    /\ running
    /\ session_open
    /\ last_raw_data = notif
    /\ last_data # None
    /\ last_data[1].raw_data = <<35, 240, 4, 0, 208, 12>>

\* C12: once stop() has cleared running while run() was in its liveness
\* poll (Streaming), run() begins no other 1 s sleep than the one it may be
\* in, begins no discovery pass and opens no session; it leaves the poll,
\* the exit of the async with block disconnects the client, and run()
\* returns, with no session held.
C12_StopStreaming ==
    /\ [][ stopped_in = "Streaming" =>
              /\ ~(pc # "sleep_1" /\ pc' = "sleep_1")
              /\ ~(pc # "discover" /\ pc' = "discover")
              /\ ~(pc # "connect" /\ pc' = "connect")
              /\ (pc' = "done" /\ pc # "done") => ~session_open ]_vars
    /\ [](stopped_in = "Streaming" =>
              /\ ~running
              /\ passes_after_stop = 0
              /\ Phase \in {"Streaming", "Leaving", "Backoff", "Top", "Terminated"}
              /\ Phase \in {"Streaming", "Leaving"} <=> session_open
              /\ pc = "done" => ~session_open /\ ~subscribed /\ ~is_connected)
    /\ (stopped_in = "Streaming") ~> (stopped_in = "Streaming" /\ pc = "done")

C12_Witness ==
    /\ stopped_in = "Streaming"
    /\ pc = "done"
    /\ thread = Some("finished")
    /\ connected
    /\ ~session_open
    /\ last_data # None

\* C13 as stated: once stop() has cleared running while run() was searching
\* for the device, the discovery polling stops: beyond the pass in progress
\* and one 2 s wait no other discovery pass begins, whether or not the
\* device is found.
C13_Original == stopped_in = "Searching" => passes_after_stop <= 1

\* A statement of run() raised an exception in the last step.
Raised == caught \in {"BleakError", "RuntimeError"}

\* C14: an exception raised by the discovery, the connection, the
\* subscription or an announcement never ends run(): it goes to the except
\* clause (through the exit of the async with block when raised inside it),
\* then to the 2 s sleep, then to the test of running, and from there, while
\* running is true, to a new search. run() returns only from that test, when
\* running is false; it has returned only in states where running is false,
\* and it is never again as before the first start().
C14_NeverTerminates ==
    /\ [][ /\ (Raised' /\ notif' = None) => pc' \in {"aexit", "except"}
           /\ pc = "except" => pc' \in {"except", "backoff"}
           /\ pc = "backoff" => pc' \in {"backoff", "while_running"}
           /\ (pc = "while_running" /\ running) =>
                  \/ pc' = "while_running"
                  \/ pc' = "announce" /\ utter' = Some(WAITING)
           /\ (pc' = "done" /\ pc # "done") => (pc = "while_running" /\ ~running)
           /\ pc # "idle" => pc' # "idle" ]_vars
    /\ [](pc = "done" => ~running)
    /\ (Raised /\ notif = None /\ running) ~> (Phase = "Searching" \/ ~running)

C14_Witness ==
    /\ pc = "discover"
    /\ running
    /\ error_pending
    /\ waiting_said = 2
    /\ client # None

\* C15 as stated: every exception the transport raises in the connection or
\* the subscription is handled like a disconnection:
\* "Multimetre deconnecte." is announced for it before the next discovery
\* pass begins, and the 2 s sleep of the except clause precedes that pass.
C15_Original ==
    /\ [](~(pc = "discover" /\ error_pending))
    /\ [][ /\ (caught' = "BleakError") => pc' \in {"aexit", "except"}
           /\ (pc = "aexit" /\ pending) => pc' \in {"aexit", "except"}
           /\ pc = "except" => pc' \in {"except", "backoff"} ]_vars

\* C16: a session that run() has opened is released by the exit of the
\* async with block before run() tests running again, handles the exception
\* or returns, whether the block ended after stop(), after a disconnection,
\* or by an exception of the subscription or of an announcement; while run()
\* searches, sleeps after an exception or has returned, no session is open
\* and the handler is not subscribed.
C16_Teardown ==
    /\ [](Phase \in {"Idle", "Top", "Searching", "Backoff", "Terminated"} =>
              ~session_open /\ ~subscribed)
    /\ [](session_open => Phase \in {"Connected", "Streaming", "Leaving"})
    /\ [][ /\ (session_open /\ ~session_open') => pc = "aexit"
           /\ (session_open /\ Raised' /\ notif' = None) => pc' = "aexit" /\ pending'
           /\ (pc = "aexit" /\ pc' # "aexit") => ~session_open' ]_vars

C16_Witness ==
    /\ pc = "except"
    /\ error_pending
    /\ connected
    /\ client # None
    /\ ~session_open
    /\ ~subscribed
    /\ running

(***************************************************************************)
(* Properties of the on-demand reads (SpecRead).                           *)
(***************************************************************************)
\* C17 as stated: the value, the unit name and the AutoRange text that
\* get_measure returns, or that get_measure_and_say announces, are those of
\* one decoded frame that was last_data during the call, however the call
\* interleaves with handle_notification.
C17_Original ==
    (mlocal # None /\ mpc \in {"idle", "announce", "speaking"}) =>
        mlocal[1].got \in {MeasureOf(data) : data \in seen}

\* C18 as stated: at most one thread is inside announce() at any time,
\* whether the call comes from run(), from the handler or from
\* get_measure_and_say.
C18_Original == Cardinality(speaking) <= 1

(***************************************************************************)
(* Properties of the announcements of the connection loop (SpecRun).       *)
(***************************************************************************)
\* The last step spoke the text.
Said(text) == spoken = << LoopMessage(text) >>

\* C19 as stated: over a run of the monitor, from start() on, "En attente
\* de connexion ..." is said exactly once, whatever discovery passes fail,
\* disconnections happen or exceptions bring run() back to the search: never
\* twice, and once before the first discovery pass.
C19_Original ==
    /\ waiting_said <= 1
    /\ pc \in {"discover", "sleep_2"} => waiting_said = 1

\* C19 amended: "En attente de connexion ..." is announced once per call of
\* wait_for_device(), that is at each entry into the search: run() calls
\* announce for it whenever it finds running true at the top of its loop (at
\* start, and again after each disconnection and each exception), the first
\* discovery pass of a search directly follows the announcement, and it is
\* not repeated between the discovery passes of one search.
C19_WaitingPerSearch ==
    [][ /\ (pc = "while_running" /\ running /\ pc' # pc) =>
              (pc' = "announce" /\ utter' = Some(WAITING))
        /\ (utter' = Some(WAITING) /\ utter # Some(WAITING)) =>
              (pc = "while_running" /\ running)
        /\ Said(WAITING)' => (pc = "speaking" /\ utter = Some(WAITING) /\ pc' = "discover")
        /\ (pc' = "discover" /\ pc # "discover") =>
              \/ Said(WAITING)' /\ waiting_said' = CountUp(waiting_said)
              \/ pc = "sleep_2" /\ spoken' = << >> /\ waiting_said' = waiting_said
        /\ (pc' = pc \/ ~Said(WAITING)') =>
              (waiting_said' = waiting_said \/ waiting_said' = 0) ]_vars

C19_Witness ==
    /\ waiting_said = 2
    /\ Said(WAITING)
    /\ pc = "discover"
    /\ client # None
    /\ running

\* C20: when the liveness poll finds the client disconnected, run() leaves
\* the poll, calls announce("Multimetre deconnecte.") once, with the
\* session still held, then the exit of the async with block releases the
\* session, then run() is back at the top of its loop and, running being
\* true, in a new search. announce is called with that text at no other
\* place. run() connects only in the step in which "Multimetre OWON
\* detecte. Connexion." has been said, and calls announce("Lecture des
\* mesures en cours.") only in the step in which start_notify has returned
\* without an exception.
C20_DisconnectSequence ==
    /\ [][ /\ (pc = "poll" /\ ~is_connected /\ pc' # pc) => pc' = "check"
           /\ (pc = "check" /\ ~is_connected /\ pc' # pc) =>
                  (pc' = "announce" /\ utter' = Some(DISCONNECTED) /\ ~connected')
           /\ (utter' = Some(DISCONNECTED) /\ utter # Some(DISCONNECTED)) =>
                  (pc = "check" /\ ~is_connected /\ session_open)
           /\ (utter = Some(DISCONNECTED) /\ pc' # pc) =>
                  \/ pc = "announce" /\ pc' = "speaking" /\ utter' = utter
                  \/ pc = "speaking" /\ pc' = "aexit" /\ utter' = None /\ session_open'
           /\ Said(DISCONNECTED)' =>
                  (pc = "speaking" /\ utter = Some(DISCONNECTED) /\ ~pending')
           /\ (pc = "aexit" /\ ~pending /\ pc' # pc) =>
                  (pc' = "while_running" /\ ~session_open' /\ ~subscribed')
           /\ (pc' = "connect" /\ pc # "connect") => Said(FOUND)'
           /\ (utter' = Some(READING) /\ utter # Some(READING)) =>
                  (pc = "start_notify" /\ ~subscribed /\ subscribed' /\ caught' = NoError)
           /\ Said(READING)' => (subscribed /\ pc' = "poll") ]_vars
    /\ (pc = "check" /\ ~is_connected) ~> (Phase = "Searching" \/ ~running)

C20_Witness ==
    /\ Said(DISCONNECTED)
    /\ pc = "aexit"
    /\ running
    /\ session_open
    /\ ~connected
    /\ ~pending
    /\ last_data # None

(***************************************************************************)
(* Properties of the tracker (SpecReserved, Spec, SpecNoFail).             *)
(***************************************************************************)
\* The frames a and b differ, and only in byte 3 or bits 4-7 of byte 2.
DiffersInReservedOnly(a, b) ==
    /\ a # b
    /\ \A i \in {1, 2, 5, 6} : a[i] = b[i]
    /\ a[3] % 16 = b[3] % 16

\* C21: a frame that differs from last_raw_data in unused bits only decodes
\* to the same attributes and is handled as a change: last_raw_data and
\* last_data become the new frame, last_change_time the current time, the
\* CSV writer is called once; and when the frame comes again
\* ANNOUNCE_DELAY_SEC or more later, not yet announced, its value is
\* announced (the speech engine not failing), though the frame announced
\* before had the same attributes.
C21_ByteExact ==
    [][ /\ (/\ notif' # None
            /\ last_raw_data # None
            /\ DiffersInReservedOnly(notif'[1], last_raw_data[1])) =>
               /\ Attributes(Decoded[notif'[1]]) = Attributes(last_data[1])
               /\ last_raw_data' = notif'
               /\ last_data' = Some(Decoded[notif'[1]])
               /\ last_change_time' = now
               /\ Len(logged') = 1
               /\ logged'[1].raw_data = notif'[1]
               /\ value_announcements' = 0
        /\ (/\ notif' # None
            /\ notif' = last_raw_data
            /\ last_announced_raw_data # None
            /\ DiffersInReservedOnly(last_raw_data[1], last_announced_raw_data[1])
            /\ now - last_change_time >= ANNOUNCE_DELAY_SEC
            /\ caught' = NoError) =>
               /\ spoken' = << ValueMessage(Decoded[last_announced_raw_data[1]]) >>
               /\ last_announced_raw_data' = last_raw_data ]_vars

C21_Witness ==
    /\ ValueSaid
    /\ notif = Some(<<35, 240, 20, 0, 207, 12>>)
    /\ last_announced_raw_data = notif
    /\ now = 2 * ANNOUNCE_DELAY_SEC
    /\ last_change_time = ANNOUNCE_DELAY_SEC

\* The flags of the last decoded frame that differ from their memories: the
\* transitions whose announcement is still owed.
FlagsOwed ==
    IF last_data = None THEN << >>
    ELSE FlagMessagesDue(last_data[1], last_hold, last_relative, last_autorange)

\* C22 as stated, on finite runs: when the announcement of a flag of the last
\* decoded frame is still owed after its call (the CSV write or an earlier
\* announcement raised), a later call that handles a decoded frame with the
\* flags unchanged, and in which nothing raises, makes the owed announcements.
C22_Original ==
    [][ (/\ FlagsOwed # << >>
         /\ notif' # None
         /\ Len(notif'[1]) = 6
         /\ Decoded[notif'[1]].data_hold_mode = last_data[1].data_hold_mode
         /\ Decoded[notif'[1]].relative_mode = last_data[1].relative_mode
         /\ Decoded[notif'[1]].auto_ranging = last_data[1].auto_ranging
         /\ caught' = NoError) =>
            \A i \in 1..Len(FlagsOwed) :
                \E j \in 1..Len(spoken') : spoken'[j] = FlagsOwed[i] ]_vars

\* C23: a stable-value announcement is made only by a call that handles a
\* frame equal to last_raw_data, ANNOUNCE_DELAY_SEC or more after
\* last_change_time, and it carries the value, unit name and auto-range state
\* of last_data, which the call leaves as it was; the call that handles a
\* changed frame makes none; and no step other than a notification (the
\* passing of time) says anything.
C23_OnlyInHandler ==
    [][ /\ ValueSaid' =>
              /\ notif' # None
              /\ last_raw_data = notif'
              /\ now - last_change_time >= ANNOUNCE_DELAY_SEC
              /\ spoken' = << [ kind      |-> "value",
                                value     |-> last_data[1].value,
                                unit_name |-> last_data[1].unit_name,
                                autorange |-> ModeText(last_data[1].auto_ranging) ] >>
              /\ UNCHANGED << last_data, last_raw_data, last_change_time >>
        /\ (notif' # None /\ last_raw_data # notif') => ~ValueSaid'
        /\ notif' = None => (spoken' = << >> /\ UNCHANGED trackerVars) ]_vars

C23_Witness ==
    /\ ValueSaid
    /\ notif = last_raw_data
    /\ now - last_change_time > ANNOUNCE_DELAY_SEC
    /\ last_data[1].auto_ranging = 0
    /\ spoken[1].autorange = ModeText(0)

\* C24: in every state between two calls of the handler, last_data is empty
\* exactly when last_raw_data is, and otherwise is the decoding of
\* last_raw_data and carries it as raw_data; and last_announced_raw_data
\* changes only in a call that makes a stable-value announcement, to the
\* value last_raw_data has in that call.
C24_TrackerConsistent ==
    /\ []( /\ (last_data = None) <=> (last_raw_data = None)
           /\ last_data # None =>
                 /\ Len(last_raw_data[1]) = 6
                 /\ last_data[1] = Owon_MultimeterData(last_raw_data[1])
                 /\ last_data[1].raw_data = last_raw_data[1] )
    /\ [][ last_announced_raw_data' # last_announced_raw_data =>
              /\ ValueSaid'
              /\ last_announced_raw_data' = last_raw_data
              /\ last_raw_data' = last_raw_data ]_vars

C24_Witness ==
    /\ last_announced_raw_data # None
    /\ last_raw_data # last_announced_raw_data
    /\ last_data # None
    /\ last_data[1].raw_data # last_announced_raw_data[1]
    /\ caught # NoError

\* C25: when neither the speech engine nor the CSV file ever fails, the three
\* flag memories are 0 until a frame is decoded and equal the flags of
\* last_data ever after; and the call that handles the first decoded frame
\* says "active" for each of its flags that is 1 and nothing for one that is 0.
C25_MemoriesFollow ==
    /\ []( IF last_data = None
           THEN last_hold = 0 /\ last_relative = 0 /\ last_autorange = 0
           ELSE /\ last_hold = last_data[1].data_hold_mode
                /\ last_relative = last_data[1].relative_mode
                /\ last_autorange = last_data[1].auto_ranging )
    /\ [][ (last_data = None /\ last_data' # None) =>
              LET d == last_data'[1]
                  on(name) == [kind |-> name, mode |-> "active"]
              IN  spoken' =
                     (IF d.data_hold_mode = 1 THEN << on("Mode Hold") >> ELSE << >>)
                     \o (IF d.relative_mode = 1 THEN << on("Mode Relatif") >> ELSE << >>)
                     \o (IF d.auto_ranging = 1 THEN << on("Mode AutoRange") >> ELSE << >>)
          ]_vars

C25_Witness ==
    /\ notif = Some(<<35, 240, 5, 0, 207, 12>>)
    /\ spoken = << [kind |-> "Mode Hold", mode |-> "active"],
                   [kind |-> "Mode AutoRange", mode |-> "active"] >>
    /\ last_hold = 1 /\ last_relative = 0 /\ last_autorange = 1
    /\ last_announced_raw_data = None

\* C26: a stable-value announcement never carries the frame that the
\* announcement before it carried. last_announced_raw_data is that frame (a
\* step that announces no value leaves it alone, one that does sets it to
\* the frame announced), and the frame announced differs from it; so when
\* the frame has changed away from the announced one and back to it with no
\* announcement in between, the calls that handle it again announce no
\* value, however late.
C26_NoRepeat ==
    [][ /\ ValueSaid' =>
              /\ last_announced_raw_data # notif'
              /\ last_announced_raw_data' = notif'
        /\ ~ValueSaid' => UNCHANGED last_announced_raw_data
        /\ (notif' # None /\ notif' = last_announced_raw_data) => ~ValueSaid' ]_vars

C26_Witness ==
    /\ last_announced_raw_data # None
    /\ last_raw_data = last_announced_raw_data
    /\ notif = last_raw_data
    /\ value_announcements = 0
    /\ last_change_time >= ANNOUNCE_DELAY_SEC
    /\ now - last_change_time >= ANNOUNCE_DELAY_SEC
    /\ spoken = << >>
    /\ caught = NoError

(***************************************************************************)
(* Properties of the monitor across sessions (SpecReconnect, SpecRun).     *)
(***************************************************************************)
\* C27: no step other than a notification (discovery, connection,
\* subscription, disconnection, error, backoff, start(), stop(), the passing
\* of time) changes a field of the tracker; so a frame equal to
\* last_raw_data, in whatever session it arrives, is handled as unchanged:
\* no row is logged, no flag is announced, the tracker keeps its frame,
\* change instant and memories, and nothing at all is said when that frame
\* is the one announced last.
C27_TrackerSurvives ==
    [][ /\ notif' = None => UNCHANGED trackerVars
        /\ (notif' # None /\ notif' = last_raw_data) =>
              /\ logged' = << >>
              /\ \A i \in 1..Len(spoken') : spoken'[i].kind = "value"
              /\ UNCHANGED << last_data, last_raw_data, last_change_time,
                              last_hold, last_relative, last_autorange >>
              /\ last_announced_raw_data = last_raw_data =>
                    (spoken' = << >> /\ UNCHANGED last_announced_raw_data) ]_vars

\* A frame stored and announced in one session comes again in a later one.
C27_Witness ==
    /\ subscribed
    /\ notif # None
    /\ notif = last_raw_data
    /\ last_announced_raw_data = last_raw_data
    /\ changed_in_search < waiting_said
    /\ spoken = << >>
    /\ logged = << >>
    /\ caught = NoError

\* C28 as stated: when a call of start() returns, running is true and a
\* live thread executes run() and has not left its loop.
C28_Original ==
    [][ start => (running' /\ thread' = Some("alive") /\ pc' # "done") ]_vars

\* C29 as stated: while running stays false after stop(), a step of the loop
\* opens no session, subscribes to nothing, and announces neither that the
\* multimeter was found nor that measurements are being read.
C29_Original ==
    [][ (~running /\ ~running' /\ stopped_in # "none") =>
            /\ session_open' => session_open
            /\ subscribed' => subscribed
            /\ ~Said(FOUND)'
            /\ ~Said(READING)' ]_vars

\* C30 as stated: connected is false whenever the loop is searching, in its
\* backoff wait, or has terminated.
C30_Original ==
    pc \in {"discover", "sleep_2", "backoff", "done"} => ~connected

====
